---- MODULE Spec2Model ----
(***************************************************************************)
(* Model of api/classify.js: the request handler, the salvage parsing of   *)
(* the oracle payload, and the normalisation and rarity scoring of the     *)
(* decoded car record.                                                     *)
(*                                                                         *)
(* Representation.                                                         *)
(*  - A JS string is a sequence of one-character strings.  The two         *)
(*    accented letters are written "E_acute" and "e_acute".                *)
(*  - A JS number is an integer count of thousandths (1.5 is 1500); every  *)
(*    number of the model has at most three decimals, so the arithmetic    *)
(*    of the code is exact on them.                                        *)
(*  - A JS value is a record [t, b, n, s]: t is the type tag, b the        *)
(*    boolean, n the number in thousandths, s the text.                    *)
(***************************************************************************)
EXTENDS Integers, Sequences, FiniteSets, TLC

VARIABLES
    version,      \* which revision of api/classify.js serves the request
    pc,           \* position of the handler
    method,       \* req.method
    apiKey,       \* process.env.OPENAI_API_KEY is set
    ping,         \* req.body.ping
    imageBase64,  \* req.body.imageBase64
    oracleOk,     \* openaiResp.ok
    raw,          \* the oracle's message content (text)
    content,      \* the fields the member text of the payload decodes to
    rawCar,       \* the decoded object handed to normalisation
    car,          \* the normalised record
    res,          \* the response sent, if any
    oracleCalls   \* number of outbound oracle calls made

vars == <<version, pc, method, apiKey, ping, imageBase64, oracleOk, raw,
          content, rawCar, car, res, oracleCalls>>

----------------------------------------------------------------------------
(* JS values *)

Undefined == [t |-> "undefined", b |-> FALSE, n |-> 0, s |-> <<>>]
Null == [t |-> "null", b |-> FALSE, n |-> 0, s |-> <<>>]
Bool(x) == [t |-> "boolean", b |-> x, n |-> 0, s |-> <<>>]
Num(x) == [t |-> "number", b |-> FALSE, n |-> x, s |-> <<>>]
Str(x) == [t |-> "string", b |-> FALSE, n |-> 0, s |-> x]
\* a whole number of units, in thousandths
Units(u) == Num(u * 1000)
\* the value thrown by a call of a method a value does not have
TypeError == [t |-> "TypeError", b |-> FALSE, n |-> 0, s |-> <<>>]

\* JS truthiness: undefined, null, false, 0 and "" are falsy
Truthy(v) ==
    CASE v.t = "boolean" -> v.b
      [] v.t = "number" -> v.n # 0
      [] v.t = "string" -> v.s # <<>>
      [] OTHER -> FALSE

\* absent in the sense of the record: null or undefined
Absent(v) == v.t \in {"null", "undefined"}

----------------------------------------------------------------------------
(* Characters and text *)

DigitChars == <<"0", "1", "2", "3", "4", "5", "6", "7", "8", "9">>
UpperChars == <<"A", "B", "C", "D", "E", "F", "G", "H", "I", "J", "K", "L", "M",
                "N", "O", "P", "Q", "R", "S", "T", "U", "V", "W", "X", "Y", "Z",
                "E_acute">>
LowerChars == <<"a", "b", "c", "d", "e", "f", "g", "h", "i", "j", "k", "l", "m",
                "n", "o", "p", "q", "r", "s", "t", "u", "v", "w", "x", "y", "z",
                "e_acute">>

IsIn(c, chars) == \E i \in 1..Len(chars) : chars[i] = c
IndexOfChar(c, chars) == CHOOSE i \in 1..Len(chars) : chars[i] = c

IsDigit(c) == IsIn(c, DigitChars)
DigitVal(c) == IndexOfChar(c, DigitChars) - 1
DigitChar(d) == DigitChars[d + 1]

toLowerChar(c) == IF IsIn(c, UpperChars) THEN LowerChars[IndexOfChar(c, UpperChars)] ELSE c
toUpperChar(c) == IF IsIn(c, LowerChars) THEN UpperChars[IndexOfChar(c, LowerChars)] ELSE c

\* String.prototype.toLowerCase / toUpperCase
toLowerCase(s) == [i \in 1..Len(s) |-> toLowerChar(s[i])]
toUpperCase(s) == [i \in 1..Len(s) |-> toUpperChar(s[i])]

\* String.prototype.includes
includes(s, sub) ==
    \E i \in 0..(Len(s) - Len(sub)) : SubSeq(s, i + 1, i + Len(sub)) = sub

\* Array.prototype.includes on a list of texts
listIncludes(list, s) == \E i \in 1..Len(list) : list[i] = s

\* the characters of s that satisfy keep, in order
RECURSIVE FilterChars(_, _)
FilterChars(s, keep) ==
    IF s = <<>> THEN <<>>
    ELSE (IF Head(s) \in keep THEN <<Head(s)>> ELSE <<>>) \o FilterChars(Tail(s), keep)

\* String.prototype.replace(",", "."): the first comma only
RECURSIVE ReplaceFirstComma(_)
ReplaceFirstComma(s) ==
    IF s = <<>> THEN <<>>
    ELSE IF Head(s) = "," THEN <<".">> \o Tail(s)
    ELSE <<Head(s)>> \o ReplaceFirstComma(Tail(s))

\* the longest prefix of s made of digits
RECURSIVE TakeDigits(_)
TakeDigits(s) ==
    IF s = <<>> \/ ~IsDigit(Head(s)) THEN <<>>
    ELSE <<Head(s)>> \o TakeDigits(Tail(s))

\* the value of a digit string (0 for the empty one)
RECURSIVE DigitsToInt(_)
DigitsToInt(ds) ==
    IF ds = <<>> THEN 0
    ELSE DigitsToInt(SubSeq(ds, 1, Len(ds) - 1)) * 10 + DigitVal(ds[Len(ds)])

\* the decimal digits of a natural number
RECURSIVE NatToStr(_)
NatToStr(k) ==
    IF k < 10 THEN <<DigitChar(k)>>
    ELSE NatToStr(k \div 10) \o <<DigitChar(k % 10)>>

----------------------------------------------------------------------------
(* Numbers and their text *)

NaN == [t |-> "NaN", b |-> FALSE, n |-> 0, s |-> <<>>]

\* the first three decimals of a digit string, as thousandths
Thousandths(fp) ==
    DigitsToInt(SubSeq(fp \o <<"0", "0", "0">>, 1, 3))

\* parseFloat on the texts toNumber and normalizeNumber hand it, which hold
\* digits, "." and "-" only: an optional sign, digits, an optional "." and
\* digits; the longest such prefix is the number, and NaN when it has no digit
FloatOf(neg, ip, fp) ==
    IF ip = <<>> /\ fp = <<>> THEN NaN
    ELSE IF neg THEN Num(0 - (DigitsToInt(ip) * 1000 + Thousandths(fp)))
    ELSE Num(DigitsToInt(ip) * 1000 + Thousandths(fp))

\* the digits after a "." that follows the integer part
FractionDigits(after) ==
    IF after # <<>> /\ Head(after) = "." THEN TakeDigits(Tail(after)) ELSE <<>>

UnsignedFloat(neg, rest, ip) ==
    FloatOf(neg, ip, FractionDigits(SubSeq(rest, Len(ip) + 1, Len(rest))))

SignedFloat(neg, rest) == UnsignedFloat(neg, rest, TakeDigits(rest))

parseFloat(s) ==
    IF s # <<>> /\ Head(s) = "-" THEN SignedFloat(TRUE, Tail(s)) ELSE SignedFloat(FALSE, s)

\* the characters /[^0-9.\-]/g leaves in place
NumberChars == {"0", "1", "2", "3", "4", "5", "6", "7", "8", "9", ".", "-"}

\* Number.isFinite(num) ? num : null
FiniteOrNull(num) == IF num.t = "number" THEN num ELSE Null

ParseNormalized(normalized) ==
    IF normalized = <<>> THEN Null ELSE FiniteOrNull(parseFloat(normalized))

toNumber(value) ==
    IF value.t = "number" THEN value
    ELSE IF value.t = "string"
        THEN ParseNormalized(FilterChars(ReplaceFirstComma(value.s), NumberChars))
    ELSE Null

normalizeNumber(value) ==
    IF Absent(value) THEN Null
    ELSE IF value.t = "number" THEN value
    ELSE IF value.t = "string"
        THEN FiniteOrNull(parseFloat(FilterChars(ReplaceFirstComma(value.s), NumberChars)))
    ELSE Null

Clamp(v) ==
    IF v.t = "null" THEN Null
    ELSE IF v.n < 0 THEN Num(0)
    ELSE IF v.n > 1000 THEN Num(1000)
    ELSE v

clamp01(x) == Clamp(normalizeNumber(x))

\* the decimals of a number of thousandths, without trailing zeros
FracStr(f) ==
    IF f = 0 THEN <<>>
    ELSE IF f % 100 = 0 THEN <<".", DigitChar(f \div 100)>>
    ELSE IF f % 10 = 0 THEN <<".", DigitChar(f \div 100), DigitChar((f \div 10) % 10)>>
    ELSE <<".", DigitChar(f \div 100), DigitChar((f \div 10) % 10), DigitChar(f % 10)>>

\* String(n) of a number, as a template literal or Array.prototype.join gives it
NumToStr(n) ==
    IF n < 0 THEN <<"-">> \o NatToStr((0 - n) \div 1000) \o FracStr((0 - n) % 1000)
    ELSE NatToStr(n \div 1000) \o FracStr(n % 1000)

\* String(v) of a value
ToStr(v) ==
    CASE v.t = "string" -> v.s
      [] v.t = "number" -> NumToStr(v.n)
      [] v.t = "boolean" -> IF v.b THEN <<"t", "r", "u", "e">> ELSE <<"f", "a", "l", "s", "e">>
      [] v.t = "null" -> <<"n", "u", "l", "l">>
      [] OTHER -> <<"u", "n", "d", "e", "f", "i", "n", "e", "d">>

----------------------------------------------------------------------------
(* Field normalizers *)

(* A chain of  if (s.includes(k1) || s.includes(k2)) return r;  statements  *)
(* is a list of rules [keys, result] in the order of the code: the first    *)
(* rule one of whose keys s includes gives the result.                      *)
Rule(keys, result) == [keys |-> keys, result |-> result]

RuleMatches(s, rule) == \E k \in 1..Len(rule.keys) : includes(s, rule.keys[k])

FirstMatch(s, rules, default) ==
    IF \E i \in 1..Len(rules) : RuleMatches(s, rules[i])
        THEN Str(rules[CHOOSE i \in 1..Len(rules) :
                           /\ RuleMatches(s, rules[i])
                           /\ \A j \in 1..(i - 1) : ~RuleMatches(s, rules[j])].result)
    ELSE default

DrivetrainRules ==
    <<Rule(<<<<"A", "W", "D">>, <<"4", "M", "A", "T", "I", "C">>, <<"Q", "U", "A", "T", "T", "R", "O">>>>, <<"A", "W", "D">>),
      Rule(<<<<"4", "W", "D">>>>, <<"4", "W", "D">>),
      Rule(<<<<"R", "W", "D">>, <<"R", "E", "A", "R">>>>, <<"R", "W", "D">>),
      Rule(<<<<"F", "W", "D">>, <<"F", "R", "O", "N", "T">>>>, <<"F", "W", "D">>)>>

normalizeDrivetrain(dt) ==
    IF ~Truthy(dt) \/ dt.t # "string" THEN Null
    ELSE FirstMatch(toUpperCase(dt.s), DrivetrainRules, Null)

CategoryRules ==
    <<Rule(<<<<"h", "y", "p", "e", "r">>>>, <<"h", "y", "p", "e", "r", "c", "a", "r">>),
      Rule(<<<<"s", "u", "p", "e", "r">>>>, <<"s", "u", "p", "e", "r", "c", "a", "r">>),
      Rule(<<<<"t", "r", "a", "c", "k">>>>, <<"t", "r", "a", "c", "k", "-", "o", "n", "l", "y">>),
      Rule(<<<<"m", "u", "s", "c", "l", "e">>>>, <<"m", "u", "s", "c", "l", "e", " ", "c", "a", "r">>),
      Rule(<<<<"h", "a", "t", "c", "h">>>>, <<"h", "a", "t", "c", "h", "b", "a", "c", "k">>),
      Rule(<<<<"s", "u", "v">>>>, <<"s", "u", "v">>),
      Rule(<<<<"w", "a", "g", "o", "n">>>>, <<"w", "a", "g", "o", "n">>),
      Rule(<<<<"c", "o", "u", "p", "e">>>>, <<"c", "o", "u", "p", "e">>),
      Rule(<<<<"s", "e", "d", "a", "n">>, <<"s", "a", "l", "o", "o", "n">>>>, <<"s", "e", "d", "a", "n">>)>>

normalizeCategory(cat) ==
    IF ~Truthy(cat) \/ cat.t # "string" THEN Null
    ELSE FirstMatch(toLowerCase(cat.s), CategoryRules, Str(<<"o", "t", "h", "e", "r">>))

\* (v || "").toLowerCase(): a truthy value that is no string has no such
\* method, and the call throws a TypeError
LowerOrEmpty(v) ==
    IF ~Truthy(v) THEN Str(<<>>)
    ELSE IF v.t = "string" THEN Str(toLowerCase(v.s))
    ELSE TypeError

UltraMakes == <<<<"p", "a", "g", "a", "n", "i">>, <<"b", "u", "g", "a", "t", "t", "i">>, <<"k", "o", "e", "n", "i", "g", "s", "e", "g", "g">>, <<"r", "i", "m", "a", "c">>>>
HighMakes == <<<<"f", "e", "r", "r", "a", "r", "i">>, <<"l", "a", "m", "b", "o", "r", "g", "h", "i", "n", "i">>, <<"p", "o", "r", "s", "c", "h", "e">>, <<"a", "s", "t", "o", "n", " ", "m", "a", "r", "t", "i", "n">>, <<"m", "c", "l", "a", "r", "e", "n">>>>
MediumMakes == <<<<"b", "m", "w">>, <<"m", "e", "r", "c", "e", "d", "e", "s", "-", "b", "e", "n", "z">>, <<"m", "e", "r", "c", "e", "d", "e", "s">>, <<"a", "u", "d", "i">>, <<"l", "e", "x", "u", "s">>, <<"d", "o", "d", "g", "e">>,
                 <<"c", "h", "e", "v", "r", "o", "l", "e", "t">>>>

\* lines 57-68, on the lowercased hint and make
PrestigeOf(hint, m) ==
    IF hint = TypeError \/ m = TypeError THEN TypeError
    ELSE IF hint.s = <<"u", "l", "t", "r", "a">> \/ hint.s = <<"h", "i", "g", "h">> THEN hint
    ELSE IF listIncludes(UltraMakes, m.s) THEN Str(<<"u", "l", "t", "r", "a">>)
    ELSE IF listIncludes(HighMakes, m.s) THEN Str(<<"h", "i", "g", "h">>)
    ELSE IF listIncludes(MediumMakes, m.s) THEN Str(<<"m", "e", "d", "i", "u", "m">>)
    ELSE Str(<<"l", "o", "w">>)

normalizePrestige(make, prestigeHint) ==
    PrestigeOf(LowerOrEmpty(prestigeHint), LowerOrEmpty(make))

EuropeHints == <<<<"e", "u", "r", "o", "p", "e">>, <<"e", "u">>>>
JapanHints == <<<<"j", "a", "p", "a", "n">>, <<"a", "s", "i", "a">>>>
USANames == <<<<"u", "s", "a">>, <<"u", "n", "i", "t", "e", "d", " ", "s", "t", "a", "t", "e", "s">>, <<"a", "m", "e", "r", "i", "c", "a">>>>
EuropeCountries == <<<<"i", "t", "a", "l", "y">>, <<"g", "e", "r", "m", "a", "n", "y">>, <<"f", "r", "a", "n", "c", "e">>, <<"u", "k">>, <<"u", "n", "i", "t", "e", "d", " ", "k", "i", "n", "g", "d", "o", "m">>, <<"s", "w", "e", "d", "e", "n">>,
                     <<"s", "p", "a", "i", "n">>>>
JapanCountries == <<<<"j", "a", "p", "a", "n">>>>

\* lines 75-86, on the lowercased hint and country
RegionOf(hint, c) ==
    IF hint = TypeError \/ c = TypeError THEN TypeError
    ELSE IF listIncludes(EuropeHints, hint.s) THEN Str(<<"E", "u", "r", "o", "p", "e">>)
    ELSE IF listIncludes(JapanHints, hint.s) THEN Str(<<"J", "a", "p", "a", "n">>)
    ELSE IF listIncludes(USANames, hint.s) THEN Str(<<"U", "S", "A">>)
    ELSE IF hint.s # <<>> THEN Str(<<"O", "t", "h", "e", "r">>)
    ELSE IF listIncludes(EuropeCountries, c.s) THEN Str(<<"E", "u", "r", "o", "p", "e">>)
    ELSE IF listIncludes(JapanCountries, c.s) THEN Str(<<"J", "a", "p", "a", "n">>)
    ELSE IF listIncludes(USANames, c.s) THEN Str(<<"U", "S", "A">>)
    ELSE Str(<<"O", "t", "h", "e", "r">>)

normalizeRegion(country, regionHint) ==
    RegionOf(LowerOrEmpty(regionHint), LowerOrEmpty(country))

AspirationRules ==
    <<Rule(<<<<"e", "l", "e", "c", "t", "r", "i", "c">>>>, <<"e", "l", "e", "c", "t", "r", "i", "c">>),
      Rule(<<<<"h", "y", "b", "r", "i", "d">>>>, <<"h", "y", "b", "r", "i", "d">>),
      Rule(<<<<"t", "w", "i", "n", "-", "t", "u", "r", "b", "o">>, <<"b", "i", "-", "t", "u", "r", "b", "o">>>>, <<"t", "w", "i", "n", "-", "t", "u", "r", "b", "o">>),
      Rule(<<<<"t", "u", "r", "b", "o">>>>, <<"t", "u", "r", "b", "o">>),
      Rule(<<<<"s", "u", "p", "e", "r", "c", "h", "a", "r", "g">>>>, <<"s", "u", "p", "e", "r", "c", "h", "a", "r", "g", "e", "d">>),
      Rule(<<<<"n", "a">>, <<"n", "a", "t", "u", "r", "a", "l", "l", "y", " ", "a", "s", "p", "i", "r", "a", "t", "e", "d">>>>, <<"n", "a">>)>>

\* lines 93-103, on the lowercased hint and engine
AspirationOf(h, e) ==
    IF h = TypeError \/ e = TypeError THEN TypeError
    ELSE IF h.s = <<>> /\ e.s = <<>> THEN Null
    ELSE FirstMatch(IF h.s # <<>> THEN h.s ELSE e.s, AspirationRules, Null)

normalizeAspiration(engine, hint) ==
    AspirationOf(LowerOrEmpty(hint), LowerOrEmpty(engine))

----------------------------------------------------------------------------
(* Records *)

Fields ==
    {"make", "model", "generation", "year_start", "year_end", "year_range",
     "horsepower", "torque_nm", "weight_kg", "zero_to_hundred", "top_speed_kmh",
     "production_numbers", "drivetrain", "vehicle_category", "prestige_class",
     "country", "region", "engine", "engine_aspiration", "confidence",
     "real_world_confidence", "frame_suspicion", "rarity_score", "rarity_tier",
     "car_slug"}

\* an object none of whose fields is set
EmptyFields == [f \in Fields |-> Undefined]

\* a decoded JSON object with the given fields
Object(fields) == [t |-> "object", f |-> fields]

\* { ...rawCar }: the own fields of an object, none for null or a number
Spread(obj) == IF obj.t = "object" THEN obj.f ELSE EmptyFields

\* what a function returns, or that it threw
Returned(c) == [threw |-> FALSE, car |-> c]
Threw(c) == [threw |-> TRUE, car |-> c]

----------------------------------------------------------------------------
(* Rarity scorer *)

Min(a, b) == IF a < b THEN a ELSE b

\* Math.round of x / d: the nearest integer, a half rounding up
MathRound(x, d) == (2 * x + d) \div (2 * d)

\* ProductionPoints with each bound counted into the bucket below it
ProductionPoints_Inclusive(pn) ==
    IF pn.t = "null" THEN 0
    ELSE IF pn.n <= 10000 THEN 10
    ELSE IF pn.n <= 30000 THEN 8
    ELSE IF pn.n <= 100000 THEN 6
    ELSE IF pn.n <= 1000000 THEN 4
    ELSE IF pn.n <= 5000000 THEN 3
    ELSE IF pn.n <= 20000000 THEN 2
    ELSE IF pn.n <= 100000000 THEN 1
    ELSE 0

\* lines 111-119
ProductionPoints(pn) ==
    IF pn.t = "null" THEN 0
    ELSE IF pn.n < 10000 THEN 10
    ELSE IF pn.n < 30000 THEN 8
    ELSE IF pn.n < 100000 THEN 6
    ELSE IF pn.n < 1000000 THEN 4
    ELSE IF pn.n < 5000000 THEN 3
    ELSE IF pn.n < 20000000 THEN 2
    ELSE IF pn.n < 100000000 THEN 1
    ELSE 0

\* AccelerationPoints with every bucket one point too low
AccelerationPoints_OneLess(zero100) ==
    IF zero100.t = "null" THEN 0
    ELSE IF zero100.n < 3500 THEN 2
    ELSE IF zero100.n < 5000 THEN 1
    ELSE 0

\* lines 123-127
AccelerationPoints(zero100) ==
    IF zero100.t = "null" THEN 0
    ELSE IF zero100.n < 3500 THEN 3
    ELSE IF zero100.n < 5000 THEN 2
    ELSE IF zero100.n < 7000 THEN 1
    ELSE 0

\* lines 131-133, Math.min(hp / 200, 3), in units of 1/200000: a horsepower
\* hp.n in thousandths gives hp.n / 200 thousandths, that is hp.n units
PowerPoints(hp) == IF hp.t = "null" THEN 0 ELSE Min(hp.n, 600000)

\* lines 137-142
PrestigePoints(make) ==
    IF listIncludes(UltraMakes, make.s) THEN 3
    ELSE IF listIncludes(HighMakes, make.s) THEN 2
    ELSE IF listIncludes(MediumMakes, make.s) THEN 1
    ELSE 0

\* lines 146-148
CategoryPoints(cat) ==
    IF cat = Str(<<"h", "y", "p", "e", "r", "c", "a", "r">>) THEN 4
    ELSE IF cat = Str(<<"s", "u", "p", "e", "r", "c", "a", "r">>) THEN 2
    ELSE IF cat = Str(<<"t", "r", "a", "c", "k", "-", "o", "n", "l", "y">>) THEN 5
    ELSE 0

\* the sum of the contributions, in units of 1/200000, and its rounding
ScoreOf(pn, zero100, hp, make, cat) ==
    IF make = TypeError THEN TypeError
    ELSE Units(MathRound((ProductionPoints(pn) + AccelerationPoints(zero100)
                          + PrestigePoints(make) + CategoryPoints(cat)) * 200000
                         + PowerPoints(hp),
                         200000))

computeRarityScore(c) ==
    ScoreOf(toNumber(c["production_numbers"]), toNumber(c["zero_to_hundred"]),
            toNumber(c["horsepower"]), LowerOrEmpty(c["make"]),
            normalizeCategory(c["vehicle_category"]))

\* getRarityTier with exclusive lower bounds
getRarityTier_Exclusive(score) ==
    IF score.n > 18000 THEN Str(<<"M", "y", "t", "h", "i", "c">>)
    ELSE IF score.n > 12000 THEN Str(<<"L", "e", "g", "e", "n", "d", "a", "r", "y">>)
    ELSE IF score.n > 8000 THEN Str(<<"E", "p", "i", "c">>)
    ELSE IF score.n > 5000 THEN Str(<<"R", "a", "r", "e">>)
    ELSE IF score.n > 3000 THEN Str(<<"U", "n", "c", "o", "m", "m", "o", "n">>)
    ELSE Str(<<"C", "o", "m", "m", "o", "n">>)

getRarityTier(score) ==
    IF score.n >= 18000 THEN Str(<<"M", "y", "t", "h", "i", "c">>)
    ELSE IF score.n >= 12000 THEN Str(<<"L", "e", "g", "e", "n", "d", "a", "r", "y">>)
    ELSE IF score.n >= 8000 THEN Str(<<"E", "p", "i", "c">>)
    ELSE IF score.n >= 5000 THEN Str(<<"R", "a", "r", "e">>)
    ELSE IF score.n >= 3000 THEN Str(<<"U", "n", "c", "o", "m", "m", "o", "n">>)
    ELSE Str(<<"C", "o", "m", "m", "o", "n">>)

----------------------------------------------------------------------------
(* Slug *)

SlugChars ==
    {"a", "b", "c", "d", "e", "f", "g", "h", "i", "j", "k", "l", "m", "n", "o", "p", "q",
     "r", "s", "t", "u", "v", "w", "x", "y", "z", "0", "1", "2", "3", "4", "5", "6", "7",
     "8", "9"}

\* normalize("NFD") and the removal of the combining marks \u0300-\u036f:
\* an accented letter loses its accent
StripDiacritics(s) == [i \in 1..Len(s) |-> IF s[i] = "e_acute" THEN "e" ELSE s[i]]

\* s without its longest prefix of characters outside SlugChars
RECURSIVE DropNonSlug(_)
DropNonSlug(s) ==
    IF s = <<>> \/ Head(s) \in SlugChars THEN s ELSE DropNonSlug(Tail(s))

\* replace(/[^a-z0-9]+/g, "_")
RECURSIVE ReplaceNonSlugRuns(_)
ReplaceNonSlugRuns(s) ==
    IF s = <<>> THEN <<>>
    ELSE IF Head(s) \in SlugChars THEN <<Head(s)>> \o ReplaceNonSlugRuns(Tail(s))
    ELSE <<"_">> \o ReplaceNonSlugRuns(DropNonSlug(s))

\* replace(/^_+|_+$/g, "")
RECURSIVE TrimUnderscores(_)
TrimUnderscores(s) ==
    IF s = <<>> THEN <<>>
    ELSE IF Head(s) = "_" THEN TrimUnderscores(Tail(s))
    ELSE IF s[Len(s)] = "_" THEN TrimUnderscores(SubSeq(s, 1, Len(s) - 1))
    ELSE s

slugify(str) ==
    TrimUnderscores(ReplaceNonSlugRuns(StripDiacritics(toLowerCase(str))))

\* parts.join(" ")
RECURSIVE Join(_)
Join(parts) ==
    IF parts = <<>> THEN <<>>
    ELSE IF Len(parts) = 1 THEN ToStr(parts[1])
    ELSE ToStr(parts[1]) \o <<" ">> \o Join(Tail(parts))

\* if (car.make) parts.push(car.make); ...
SlugParts(c) ==
    (IF Truthy(c["make"]) THEN <<c["make"]>> ELSE <<>>)
    \o (IF Truthy(c["model"]) THEN <<c["model"]>> ELSE <<>>)
    \o (IF Truthy(c["generation"]) THEN <<c["generation"]>> ELSE <<>>)

\* lines 177-180
SlugOf(base, year_start) ==
    IF Truthy(year_start) /\ year_start.t = "number"
        THEN Str(base \o <<"_">> \o NumToStr(year_start.n))
    ELSE IF base # <<>> THEN Str(base)
    ELSE Null

buildCarSlug(c) == SlugOf(slugify(Join(SlugParts(c))), c["year_start"])

----------------------------------------------------------------------------
(* normalizeCarObject *)

\* the fields lines 194-203 coerce
NumberFields ==
    {"horsepower", "torque_nm", "weight_kg", "zero_to_hundred", "top_speed_kmh",
     "production_numbers", "year_start", "year_end"}

CoerceNumbers(c) == [f \in Fields |-> IF f \in NumberFields THEN toNumber(c[f]) ELSE c[f]]

\* lines 206-214, on ys = car.year_start || null and ye = car.year_end || null
YearRangeOf(c, ys, ye) ==
    IF Truthy(ys) /\ Truthy(ye) /\ ys # ye
        THEN [c EXCEPT !["year_range"] = Str(NumToStr(ys.n) \o <<"-">> \o NumToStr(ye.n))]
    ELSE IF Truthy(ys) THEN [c EXCEPT !["year_range"] = Str(NumToStr(ys.n))]
    ELSE IF Truthy(ye) THEN [c EXCEPT !["year_range"] = Str(NumToStr(ye.n))]
    ELSE c

OrNull(v) == IF Truthy(v) THEN v ELSE Null

\* lines 205-215: derive year_range from the years when it is missing
DeriveYearRange(c) ==
    IF ~Truthy(c["year_range"]) /\ (Truthy(c["year_start"]) \/ Truthy(c["year_end"]))
        THEN YearRangeOf(c, OrNull(c["year_start"]), OrNull(c["year_end"]))
    ELSE c

\* the fields lines 225-227 coerce
ConfidenceFields == {"confidence", "real_world_confidence", "frame_suspicion"}

\* lines 218-227, given what the three normalizers that can throw returned
Categoricals(c, prestige, region, aspiration) ==
    IF prestige = TypeError \/ region = TypeError \/ aspiration = TypeError THEN Threw(c)
    ELSE Returned([f \in Fields |->
             CASE f = "drivetrain" -> normalizeDrivetrain(c[f])
               [] f = "vehicle_category" -> normalizeCategory(c[f])
               [] f = "prestige_class" -> prestige
               [] f = "region" -> region
               [] f = "engine_aspiration" -> aspiration
               [] f \in ConfidenceFields -> toNumber(c[f])
               [] OTHER -> c[f]])

NormalizeCategoricals(c) ==
    Categoricals(c, normalizePrestige(c["make"], c["prestige_class"]),
                 normalizeRegion(c["country"], c["region"]),
                 normalizeAspiration(c["engine"], c["engine_aspiration"]))

\* lines 230-232
Scored(c, rarityScore) ==
    IF rarityScore = TypeError THEN Threw(c)
    ELSE Returned([c EXCEPT !["rarity_score"] = rarityScore,
                            !["rarity_tier"] = getRarityTier(rarityScore)])

ScoreRarity(r) == IF r.threw THEN r ELSE Scored(r.car, computeRarityScore(r.car))

\* line 235
BuildSlug(r) ==
    IF r.threw THEN r ELSE Returned([r.car EXCEPT !["car_slug"] = buildCarSlug(r.car)])

\* The result is [threw, car]: threw is TRUE when a statement of the function
\* throws, and the function then returns nothing.
normalizeCarObject(rawCar0) ==
    BuildSlug(ScoreRarity(NormalizeCategoricals(DeriveYearRange(CoerceNumbers(Spread(rawCar0))))))

----------------------------------------------------------------------------
(* The inline normalisation of the earlier revision (part_000) *)

IsDigits4(s, i) ==
    i >= 1 /\ i + 3 <= Len(s) /\ \A k \in i..(i + 3) : IsDigit(s[k])

\* the first position from i on that holds a digit, or Len(s) + 1
RECURSIVE NextDigit(_, _)
NextDigit(s, i) ==
    IF i > Len(s) \/ IsDigit(s[i]) THEN i ELSE NextDigit(s, i + 1)

\* /(\d{4})\D+(\d{4})/ anchored at i: four digits, a run of non-digits (which
\* the four digits that follow force to be the whole run), four digits
MatchesAt(s, i) ==
    IsDigits4(s, i) /\ NextDigit(s, i + 4) > i + 4 /\ IsDigits4(s, NextDigit(s, i + 4))

\* the leftmost position at which the pattern matches
FirstMatchAt(s) ==
    CHOOSE k \in 1..Len(s) : MatchesAt(s, k) /\ \A h \in 1..(k - 1) : ~MatchesAt(s, h)

\* the two groups of a match at i, read by parseInt(.., 10)
GroupsAt(s, i, j) ==
    [found |-> TRUE,
     ys |-> Units(DigitsToInt(SubSeq(s, i, i + 3))),
     ye |-> Units(DigitsToInt(SubSeq(s, j, j + 3)))]

MatchAt(s, i) == GroupsAt(s, i, NextDigit(s, i + 4))

\* year_range.match(/(\d{4})\D+(\d{4})/): [found, ys, ye]
matchYearRange(s) ==
    IF \E i \in 1..Len(s) : MatchesAt(s, i) THEN MatchAt(s, FirstMatchAt(s))
    ELSE [found |-> FALSE, ys |-> Null, ye |-> Null]

SetYears(c, m) ==
    IF m.found THEN [c EXCEPT !["year_start"] = m.ys, !["year_end"] = m.ye] ELSE c

\* lines 213-224: fill the years from year_range when one of them is missing
ParseYearRange(c) ==
    IF (~Truthy(c["year_start"]) \/ ~Truthy(c["year_end"])) /\ c["year_range"].t = "string"
        THEN SetYears(c, matchYearRange(c["year_range"].s))
    ELSE c

\* the fields lines 203-211 coerce
InlineNumberFields ==
    {"horsepower", "torque_nm", "top_speed_kmh", "weight_kg", "zero_to_hundred",
     "year_start", "year_end"}

InlineNumbers(c) ==
    [f \in Fields |-> IF f \in InlineNumberFields THEN normalizeNumber(c[f]) ELSE c[f]]

\* lines 227-228
InlineClamp(c) ==
    [f \in Fields |-> IF f \in {"confidence", "rarity_score"} THEN clamp01(c[f]) ELSE c[f]]

\* lines 200-228 of the earlier handler, on the value JSON.parse gave.  The
\* file is an ES module, hence strict: an assignment to a property of null or
\* of a number throws.  The result is [threw, car] as for normalizeCarObject.
normalizeInline(parsed) ==
    IF parsed.t # "object" THEN Threw(EmptyFields)
    ELSE Returned(InlineClamp(ParseYearRange(InlineNumbers(parsed.f))))

----------------------------------------------------------------------------
(* The oracle payload and its parsing *)

(* The payload is a sequence of tokens.  "{" and "}" are the brace           *)
(* characters; "m" is the text of one or more members ("make":"Ford"),      *)
(* without a brace; "," a comma between members; "w" a word of noise        *)
(* (Sure!); "null" and "123" the JSON literals.  The members of the payload *)
(* decode to the fields of the variable content.                            *)
PayloadTokens == {"{", "}", "m", ",", "w", "null", "123"}

\* the members between the braces: none, or m , m , ... m
IsMemberList(inner) ==
    inner = <<>>
    \/ /\ Len(inner) % 2 = 1
       /\ \A i \in 1..Len(inner) : inner[i] = (IF i % 2 = 1 THEN "m" ELSE ",")

\* JSON.parse(text): [ok, value]; ok is FALSE when it throws a SyntaxError
JSONparse(text, fields) ==
    IF text = <<"null">> THEN [ok |-> TRUE, value |-> Null]
    ELSE IF text = <<"123">> THEN [ok |-> TRUE, value |-> Units(123)]
    ELSE IF Len(text) >= 2 /\ text[1] = "{" /\ text[Len(text)] = "}"
            /\ IsMemberList(SubSeq(text, 2, Len(text) - 1))
        THEN [ok |-> TRUE,
              value |-> Object(IF Len(text) = 2 THEN EmptyFields ELSE fields)]
    ELSE [ok |-> FALSE, value |-> Undefined]

\* String.prototype.indexOf / lastIndexOf of one character: 0-based, or -1
indexOf(text, c) ==
    IF \E i \in 1..Len(text) : text[i] = c
        THEN (CHOOSE i \in 1..Len(text) : text[i] = c /\ \A k \in 1..(i - 1) : text[k] # c) - 1
    ELSE -1

lastIndexOf(text, c) ==
    IF \E i \in 1..Len(text) : text[i] = c
        THEN (CHOOSE i \in 1..Len(text) :
                  text[i] = c /\ \A k \in (i + 1)..Len(text) : text[k] # c) - 1
    ELSE -1

\* String.prototype.slice(from, to) with 0 <= from <= to <= length
slice(text, from, to) == SubSeq(text, from + 1, to)

\* ai?.choices?.[0]?.message?.content || "{}"
RawText(messageContent) == IF messageContent = <<>> THEN <<"{", "}">> ELSE messageContent

\* the catch block of lines 377-399, given the text between the first "{"
\* and the last "}" parsed
Salvage(inner) ==
    IF inner.ok THEN [outcome |-> "salvaged", value |-> inner.value]
    ELSE [outcome |-> "salvage_failed", value |-> Undefined]

SalvageBetween(text, fields, start, end) ==
    IF start >= 0 /\ end > start
        THEN Salvage(JSONparse(slice(text, start, end + 1), fields))
    ELSE [outcome |-> "no_object", value |-> Undefined]

DirectOrSalvage(direct, text, fields) ==
    IF direct.ok THEN [outcome |-> "parsed", value |-> direct.value]
    ELSE SalvageBetween(text, fields, indexOf(text, "{"), lastIndexOf(text, "}"))

\* the try/catch around JSON.parse(raw): [outcome, value], outcome one of
\* "parsed", "salvaged", "salvage_failed", "no_object"
parsePayload(text, fields) == DirectOrSalvage(JSONparse(text, fields), text, fields)

----------------------------------------------------------------------------
(* Bounds and inputs *)

\* the longest oracle payload, in tokens
MaxPayloadLen == 4

\* the most fields by which a raw record differs from a base record
MaxOverrides == 1

Versions == {"part_000", "part_001"}

Payloads == UNION {[1..n -> PayloadTokens] : n \in 0..MaxPayloadLen}

\* the scenario record of the specification
PaganiFields ==
    [EmptyFields EXCEPT !["make"] = Str(<<"P", "a", "g", "a", "n", "i">>),
                        !["model"] = Str(<<"Z", "o", "n", "d", "a">>),
                        !["production_numbers"] = Str(<<"4", "0">>),
                        !["horsepower"] = Str(<<"5", "5", "5">>),
                        !["vehicle_category"] = Str(<<"h", "y", "p", "e", "r", "c", "a", "r">>),
                        !["zero_to_hundred"] = Str(<<"3", ".", "7", " ", "s">>)]

\* the values the oracle may give a field: well-typed ones, numbers as text
\* with units or a decimal comma, and wrongly-typed ones
FieldValues(f) ==
    CASE f = "make" -> {Str(<<"P", "a", "g", "a", "n", "i">>), Str(<<"B", "M", "W">>), Str(<<"!", "?">>), Units(5)}
      [] f = "model" -> {Str(<<"C", "i", "t", "r", "o", "e_acute", "n", " ", "2", "C", "V">>), Units(5)}
      [] f = "generation" -> {Str(<<"C", "1", "2", " ", "S">>), Bool(TRUE)}
      [] f = "year_start" -> {Units(2005), Units(1999), Str(<<"1", "9", "9", "9", ".", "5">>)}
      [] f = "year_end" -> {Units(1999), Units(2005)}
      [] f = "year_range" -> {Str(<<"1", "9", "9", "9", "-", "2", "0", "0", "2">>), Str(<<"2", "0", "0", "4">>), Str(<<"c", ".", "1", "9", "9", "9", " ", "t", "o", " ", "2", "0", "0", "2">>)}
      [] f = "horsepower" -> {Units(555), Units(100), Str(<<"-", "1", "0", "0", "0">>), Bool(TRUE)}
      [] f = "torque_nm" -> {Str(<<"5", "0", "0", " ", "N", "m">>)}
      [] f = "weight_kg" -> {Str(<<"1", "2", "5", "0", "k", "g">>)}
      [] f = "zero_to_hundred" -> {Str(<<"3", ",", "2">>), Num(6900), Str(<<"-">>)}
      [] f = "top_speed_kmh" -> {Str(<<"3", "2", "0", " ", "k", "m", "/", "h">>)}
      [] f = "production_numbers" -> {Units(9), Units(10), Units(200000), Str(<<"-", "3">>)}
      [] f = "drivetrain" -> {Str(<<"Q", "u", "a", "t", "t", "r", "o", " ", "A", "W", "D", " ", "s", "y", "s", "t", "e", "m">>), Str(<<"r", "e", "a", "r">>), Str(<<"x", "y", "z">>), Units(4)}
      [] f = "vehicle_category" ->
            {Str(<<"T", "r", "a", "c", "k", " ", "d", "a", "y">>), Str(<<"S", "u", "p", "e", "r", "c", "a", "r">>), Str(<<"t", "r", "u", "c", "k">>), Bool(TRUE)}
      [] f = "prestige_class" ->
            {Str(<<"l", "o", "w">>), Str(<<"m", "e", "d", "i", "u", "m">>), Str(<<"h", "i", "g", "h">>), Str(<<"u", "l", "t", "r", "a">>), Str(<<"b", "o", "g", "u", "s">>),
             Bool(TRUE)}
      [] f = "country" -> {Str(<<"I", "t", "a", "l", "y">>), Str(<<"J", "a", "p", "a", "n">>), Units(1)}
      [] f = "region" -> {Str(<<"E", "U">>), Str(<<"M", "a", "r", "s">>), Bool(TRUE)}
      [] f = "engine" -> {Str(<<"3", ".", "9", "L", " ", "t", "w", "i", "n", "-", "t", "u", "r", "b", "o", " ", "V", "8">>), Units(12)}
      [] f = "engine_aspiration" -> {Str(<<"N", "A">>), Str(<<"B", "i", "-", "T", "u", "r", "b", "o">>), Bool(TRUE)}
      [] f = "confidence" -> {Num(500), Num(1500), Num(-200), Str(<<"a", "b", "c">>)}
      [] f = "real_world_confidence" -> {Num(700), Units(2)}
      [] f = "frame_suspicion" -> {Str(<<"0", ",", "3">>), Units(-1)}
      [] f = "rarity_score" -> {Num(500), Units(99)}
      [] f = "rarity_tier" -> {Str(<<"M", "y", "t", "h", "i", "c">>), Str(<<"C", "o", "m", "m", "o", "n">>)}
      [] OTHER -> {Str(<<"o", "l", "d", "-", "s", "l", "u", "g">>)}

\* the records that differ from base in at most k fields
RECURSIVE Overridden(_, _)
Overridden(base, k) ==
    IF k = 0 THEN {base}
    ELSE LET prev == Overridden(base, k - 1)
         IN  prev \cup UNION {{[r EXCEPT ![f] = v] : v \in FieldValues(f)} :
                              r \in prev, f \in Fields}

\* a low-volume track special with both years
HomologationFields ==
    [EmptyFields EXCEPT !["make"] = Str(<<"P", "o", "r", "s", "c", "h", "e">>),
                        !["model"] = Str(<<"9", "1", "1", " ", "G", "T", "1">>),
                        !["year_start"] = Units(1996),
                        !["year_end"] = Units(1998),
                        !["production_numbers"] = Units(25),
                        !["horsepower"] = Units(537),
                        !["zero_to_hundred"] = Num(3900),
                        !["drivetrain"] = Str(<<"R", "W", "D">>),
                        !["vehicle_category"] = Str(<<"t", "r", "a", "c", "k", "-", "o", "n", "l", "y">>),
                        !["country"] = Str(<<"G", "e", "r", "m", "a", "n", "y">>),
                        !["confidence"] = Num(900)]

BaseRecords == {EmptyFields, PaganiFields, HomologationFields}

\* the raw records normalisation is checked on
RawFieldSets == UNION {Overridden(base, MaxOverrides) : base \in BaseRecords}

\* the records the handler's payloads decode to: the scenario, a record whose
\* make is a number, and a record with a year and no identity
HandlerContents ==
    {PaganiFields,
     [EmptyFields EXCEPT !["make"] = Units(5)],
     [EmptyFields EXCEPT !["year_start"] = Units(1999)]}

----------------------------------------------------------------------------
(* The request handler *)

Response(status, success, error) ==
    [status |-> status, success |-> success, error |-> error,
     hasCar |-> FALSE, hasRaw |-> FALSE, raw |-> <<>>]

NoResponse == Response(0, "none", "none")

Init ==
    /\ version \in Versions
    /\ pc = "start"
    /\ method \in {"GET", "POST"}
    /\ apiKey \in BOOLEAN
    /\ ping \in {Undefined, Bool(TRUE), Str(<<"1">>)}
    /\ imageBase64 \in {Undefined, Str(<<"d", "a", "t", "a", ":">>)}
    /\ oracleOk = FALSE
    /\ raw = <<>>
    /\ content = EmptyFields
    /\ rawCar = Undefined
    /\ car = EmptyFields
    /\ res = NoResponse
    /\ oracleCalls = 0

\* if (req.method !== "POST") return res.status(405)...
CheckMethod ==
    /\ pc = "start"
    /\ IF method # "POST"
           THEN /\ res' = Response(405, IF version = "part_000" THEN "false" ELSE "absent",
                                   "Method not allowed")
                /\ pc' = "done"
           ELSE /\ pc' = "checkKey"
                /\ UNCHANGED res
    /\ UNCHANGED <<version, method, apiKey, ping, imageBase64, oracleOk, raw, content,
                   rawCar, car, oracleCalls>>

\* if (!apiKey) return res.status(500)...
CheckApiKey ==
    /\ pc = "checkKey"
    /\ IF ~apiKey
           THEN /\ res' = Response(500, "false", "Missing OPENAI_API_KEY environment variable")
                /\ pc' = "done"
           ELSE /\ pc' = "checkPing"
                /\ UNCHANGED res
    /\ UNCHANGED <<version, method, apiKey, ping, imageBase64, oracleOk, raw, content,
                   rawCar, car, oracleCalls>>

\* if (ping === true) in part_001, if (ping) in part_000
CheckPing ==
    /\ pc = "checkPing"
    /\ IF (IF version = "part_001" THEN ping = Bool(TRUE) ELSE Truthy(ping))
           THEN /\ res' = Response(200, "true", "none")
                /\ pc' = "done"
           ELSE /\ pc' = "checkImage"
                /\ UNCHANGED res
    /\ UNCHANGED <<version, method, apiKey, ping, imageBase64, oracleOk, raw, content,
                   rawCar, car, oracleCalls>>

\* CheckImage without the test: the request goes on to the oracle call
CheckImage_Skipped ==
    /\ pc = "checkImage"
    /\ pc' = "fetch"
    /\ UNCHANGED <<version, method, apiKey, ping, imageBase64, oracleOk, raw, content,
                   rawCar, car, res, oracleCalls>>

\* if (!imageBase64) return res.status(400)...
CheckImage ==
    /\ pc = "checkImage"
    /\ IF ~Truthy(imageBase64)
           THEN /\ res' = Response(400, "false", "No image provided (imageBase64 required)")
                /\ pc' = "done"
           ELSE /\ pc' = "fetch"
                /\ UNCHANGED res
    /\ UNCHANGED <<version, method, apiKey, ping, imageBase64, oracleOk, raw, content,
                   rawCar, car, oracleCalls>>

\* await fetch("https://api.openai.com/v1/chat/completions", ...)
CallOracle ==
    /\ pc = "fetch"
    /\ oracleCalls' = oracleCalls + 1
    /\ pc' = "await"
    /\ UNCHANGED <<version, method, apiKey, ping, imageBase64, oracleOk, raw, content,
                   rawCar, car, res>>

\* fetch rejects, or openaiResp.json() throws: the catch block answers
OracleThrows ==
    /\ pc = "await"
    /\ res' = Response(500, "false", "Internal server error")
    /\ pc' = "done"
    /\ UNCHANGED <<version, method, apiKey, ping, imageBase64, oracleOk, raw, content,
                   rawCar, car, oracleCalls>>

\* if (!openaiResp.ok) return res.status(502)...
OracleError ==
    /\ pc = "await"
    /\ oracleOk' = FALSE
    /\ res' = Response(502, "false", "Upstream OpenAI error")
    /\ pc' = "done"
    /\ UNCHANGED <<version, method, apiKey, ping, imageBase64, raw, content, rawCar, car,
                   oracleCalls>>

\* the oracle answers with a message content
OracleReplies ==
    /\ pc = "await"
    /\ oracleOk' = TRUE
    /\ \E text \in Payloads :
           /\ raw' = text
           /\ \E fields \in (IF IsIn("m", text) THEN HandlerContents ELSE {EmptyFields}) :
                  content' = fields
    /\ pc' = "parse"
    /\ UNCHANGED <<version, method, apiKey, ping, imageBase64, rawCar, car, res, oracleCalls>>

\* the two error responses of the catch block, with the raw text attached
Unparsable(outcome, text) ==
    [Response(500, "false",
              IF outcome = "salvage_failed" THEN "Could not parse AI JSON after salvage"
              ELSE "Could not parse AI JSON")
     EXCEPT !.hasRaw = TRUE, !.raw = text]

Parsed(parsed, text) ==
    IF parsed.outcome \in {"parsed", "salvaged"}
        THEN /\ rawCar' = parsed.value
             /\ pc' = "normalize"
             /\ UNCHANGED res
    ELSE /\ res' = Unparsable(parsed.outcome, text)
         /\ pc' = "done"
         /\ UNCHANGED rawCar

\* the try/catch around JSON.parse(raw)
ParsePayload ==
    /\ pc = "parse"
    /\ Parsed(parsePayload(RawText(raw), content), RawText(raw))
    /\ UNCHANGED <<version, method, apiKey, ping, imageBase64, oracleOk, raw, content, car,
                   oracleCalls>>

Normalized(r) ==
    IF r.threw
        THEN /\ res' = Response(500, "false", "Internal server error")
             /\ UNCHANGED car
    ELSE /\ res' = [Response(200, "true", "none") EXCEPT !.hasCar = TRUE]
         /\ car' = r.car

\* const car = normalizeCarObject(rawCar); return res.status(200)... in
\* part_001, the inline normalisation in part_000; a throw reaches the catch
Normalize ==
    /\ pc = "normalize"
    /\ Normalized(IF version = "part_001" THEN normalizeCarObject(rawCar)
                  ELSE normalizeInline(rawCar))
    /\ pc' = "done"
    /\ UNCHANGED <<version, method, apiKey, ping, imageBase64, oracleOk, raw, content,
                   rawCar, oracleCalls>>

Next ==
    \/ CheckMethod
    \/ CheckApiKey
    \/ CheckPing
    \/ CheckImage
    \/ CallOracle
    \/ OracleThrows
    \/ OracleError
    \/ OracleReplies
    \/ ParsePayload
    \/ Normalize

Spec == Init /\ [][Next]_vars

\* normalisation alone, on a record the transport layer already decoded
InitNormalize ==
    /\ version \in Versions
    /\ pc = "normalize"
    /\ method = "POST"
    /\ apiKey = TRUE
    /\ ping = Undefined
    /\ imageBase64 = Str(<<"d", "a", "t", "a", ":">>)
    /\ oracleOk = TRUE
    /\ content \in RawFieldSets
    /\ raw = (IF content = EmptyFields THEN <<"{", "}">> ELSE <<"{", "m", "}">>)
    /\ rawCar = Object(content)
    /\ car = EmptyFields
    /\ res = NoResponse
    /\ oracleCalls = 1

NextNormalize == Normalize

SpecNormalize == InitNormalize /\ [][NextNormalize]_vars

----------------------------------------------------------------------------
(* Properties *)

\* the request ended with a record normalised by normalizeCarObject
NormalizedRecord == pc = "done" /\ version = "part_001" /\ res.hasCar

\* the request ended with a record, whichever revision normalised it
AnyNormalizedRecord == pc = "done" /\ res.hasCar

TierNames == <<<<"C", "o", "m", "m", "o", "n">>, <<"U", "n", "c", "o", "m", "m", "o", "n">>, <<"R", "a", "r", "e">>, <<"E", "p", "i", "c">>, <<"L", "e", "g", "e", "n", "d", "a", "r", "y">>, <<"M", "y", "t", "h", "i", "c">>>>

TierRank(tier) == CHOOSE i \in 1..Len(TierNames) : Str(TierNames[i]) = tier

\* C1: normalizeCarObject never throws: for every raw record whose fields hold
\* a string, a number, a boolean, null or nothing, the call returns a record
\* (the request ends with the record, not in the catch block).
C1_NormalizeNeverThrows ==
    (pc = "done" /\ version = "part_001" /\ rawCar.t = "object")
        => (res.hasCar /\ res.status = 200)

\* C2: the rarity_score of every normalised record is a non-negative integer.
C2_ScoreNonNegativeInteger ==
    NormalizedRecord
        => /\ car["rarity_score"].t = "number"
           /\ car["rarity_score"].n >= 0
           /\ car["rarity_score"].n % 1000 = 0

\* C3: in every normalised record confidence, real_world_confidence and
\* frame_suspicion are each absent or a number in [0, 1].
C3_ConfidencesInUnitInterval ==
    AnyNormalizedRecord
        => \A f \in ConfidenceFields :
               \/ Absent(car[f])
               \/ (car[f].t = "number" /\ car[f].n >= 0 /\ car[f].n <= 1000)

\* C4: in every normalised record year_start and year_end are each an integer
\* or absent, and year_start <= year_end when both are present.
C4_YearsIntegerAndOrdered ==
    AnyNormalizedRecord
        => /\ \A f \in {"year_start", "year_end"} :
                  Absent(car[f]) \/ (car[f].t = "number" /\ car[f].n % 1000 = 0)
           /\ (~Absent(car["year_start"]) /\ ~Absent(car["year_end"]))
                  => car["year_start"].n <= car["year_end"].n

\* C5, as first stated: the scenario record normalises to production_numbers
\* 40 (contribution 6), horsepower 555 (contribution 2.775), prestige 3,
\* category 4 and acceleration 1, a rarity_score of 16 and the tier Legendary.
C5_ScenarioAsStated ==
    (NormalizedRecord /\ content = PaganiFields)
        => /\ car["production_numbers"] = Units(40)
           /\ ProductionPoints(car["production_numbers"]) = 6
           /\ car["horsepower"] = Units(555)
           /\ PowerPoints(car["horsepower"]) = 555000
           /\ PrestigePoints(LowerOrEmpty(car["make"])) = 3
           /\ CategoryPoints(car["vehicle_category"]) = 4
           /\ AccelerationPoints(car["zero_to_hundred"]) = 1
           /\ car["rarity_score"] = Units(16)
           /\ car["rarity_tier"] = Str(<<"L", "e", "g", "e", "n", "d", "a", "r", "y">>)

\* C5, amended: the scenario record normalises to production_numbers 40
\* (contribution 6), horsepower 555 (contribution 2.775, that is 555000 units
\* of 1/200000), prestige 3, category 4 and acceleration 2 (3.7 is below 5.0),
\* a rarity_score of 18 (17.775 rounded) and the tier Mythic.
C5_ScenarioAmended ==
    (NormalizedRecord /\ content = PaganiFields)
        => /\ car["production_numbers"] = Units(40)
           /\ ProductionPoints(car["production_numbers"]) = 6
           /\ car["horsepower"] = Units(555)
           /\ PowerPoints(car["horsepower"]) = 555000
           /\ PrestigePoints(LowerOrEmpty(car["make"])) = 3
           /\ CategoryPoints(car["vehicle_category"]) = 4
           /\ car["zero_to_hundred"] = Num(3700)
           /\ AccelerationPoints(car["zero_to_hundred"]) = 2
           /\ car["rarity_score"] = Units(18)
           /\ car["rarity_tier"] = Str(<<"M", "y", "t", "h", "i", "c">>)

\* the scenario record has been normalised
C5_Witness == NormalizedRecord /\ content = PaganiFields /\ car["rarity_score"].n > 0

\* the payload is not valid JSON, and its text from the first "{" to the last
\* "}" is a valid JSON object
Salvageable(text, fields) ==
    /\ ~JSONparse(text, fields).ok
    /\ indexOf(text, "{") >= 0
    /\ lastIndexOf(text, "}") > indexOf(text, "{")
    /\ JSONparse(slice(text, indexOf(text, "{"), lastIndexOf(text, "}") + 1), fields).ok

\* C6: a payload that is not valid JSON but whose text from the first "{" to
\* the last "}" is a valid JSON object is salvaged to exactly that object, and
\* the request ends with a success response, not an error response.
C6_SalvageEndsInSuccess ==
    (pc = "done" /\ oracleOk /\ Salvageable(RawText(raw), content))
        => /\ rawCar = JSONparse(slice(RawText(raw), indexOf(RawText(raw), "{"),
                                       lastIndexOf(RawText(raw), "}") + 1), content).value
           /\ res.status = 200
           /\ res.success = "true"
           /\ res.hasCar

\* C7: every payload without a brace character, the empty one and the texts
\* null and 123 included, ends the request with the unparsable-response
\* error, which carries the raw text, and no record is produced.
C7_BraceFreeIsUnparsable ==
    (pc = "done" /\ oracleOk /\ ~IsIn("{", raw) /\ ~IsIn("}", raw))
        => /\ res.status = 500
           /\ res.error = "Could not parse AI JSON"
           /\ res.hasRaw
           /\ res.raw = raw
           /\ ~res.hasCar

\* C8: the rarity_tier of a normalised record is given by its rarity_score
\* alone through inclusive lower bounds checked highest first (>= 18 Mythic,
\* >= 12 Legendary, >= 8 Epic, >= 5 Rare, >= 3 Uncommon, else Common),
\* whatever tier or score the raw record carried; and no score at or above
\* the record's maps to a lower tier.  The scores of the records lie between
\* -5 (the least power term) and 24 (the sum of the greatest contributions).
C8_TierFromScoreAlone ==
    NormalizedRecord
        => /\ car["rarity_tier"] =
                  (IF car["rarity_score"].n >= 18000 THEN Str(<<"M", "y", "t", "h", "i", "c">>)
                   ELSE IF car["rarity_score"].n >= 12000 THEN Str(<<"L", "e", "g", "e", "n", "d", "a", "r", "y">>)
                   ELSE IF car["rarity_score"].n >= 8000 THEN Str(<<"E", "p", "i", "c">>)
                   ELSE IF car["rarity_score"].n >= 5000 THEN Str(<<"R", "a", "r", "e">>)
                   ELSE IF car["rarity_score"].n >= 3000 THEN Str(<<"U", "n", "c", "o", "m", "m", "o", "n">>)
                   ELSE Str(<<"C", "o", "m", "m", "o", "n">>))
           /\ \A k \in (0 - 5)..24 :
                  k * 1000 >= car["rarity_score"].n
                      => TierRank(getRarityTier(Units(k))) >= TierRank(car["rarity_tier"])

\* a record whose raw tier was Common and whose score makes it Mythic
C8_Witness ==
    /\ NormalizedRecord
    /\ content["rarity_tier"] = Str(<<"C", "o", "m", "m", "o", "n">>)
    /\ car["rarity_score"].n >= 18000
    /\ car["rarity_tier"] = Str(<<"M", "y", "t", "h", "i", "c">>)

\* C9: car_slug is absent whenever the slugified concatenation of make, model
\* and generation is empty, also when year_start is a finite non-zero number.
C9_NoSlugWithoutIdentity ==
    (NormalizedRecord /\ slugify(Join(SlugParts(car))) = <<>>)
        => Absent(car["car_slug"])

\* C10: normalizePrestige returns the explicit class hint whenever the hint
\* is one of the four tier names low, medium, high, ultra, whatever the make.
C10_RecognizedHintWins ==
    (NormalizedRecord
     /\ content["prestige_class"] \in {Str(<<"l", "o", "w">>), Str(<<"m", "e", "d", "i", "u", "m">>), Str(<<"h", "i", "g", "h">>), Str(<<"u", "l", "t", "r", "a">>)})
        => car["prestige_class"] = content["prestige_class"]

\* the text s holds the four digits of a and, after them, the four digits of b
ContainsInOrder(s, a, b) ==
    \E i, j \in 1..Len(s) :
        /\ i + 4 <= j
        /\ j + 3 <= Len(s)
        /\ SubSeq(s, i, i + 3) = a
        /\ SubSeq(s, j, j + 3) = b

\* the raw record has neither year and a year_range text that matches
\* \d{4}\D+\d{4}
YearRangeOnly(c) ==
    /\ Absent(c["year_start"])
    /\ Absent(c["year_end"])
    /\ c["year_range"].t = "string"
    /\ matchYearRange(c["year_range"].s).found

\* C11: for a raw record whose year_start and year_end are both absent and
\* whose year_range is a text matching \d{4}\D+\d{4}, the normalised record
\* has the two four-digit numbers as year_start and year_end, in order, and
\* the year_range derived again from those two years holds the same two
\* four-digit numbers in the same order.
C11_YearRangeRoundTrip ==
    (AnyNormalizedRecord /\ YearRangeOnly(content))
        => /\ car["year_start"] = matchYearRange(content["year_range"].s).ys
           /\ car["year_end"] = matchYearRange(content["year_range"].s).ye
           /\ ContainsInOrder(
                  YearRangeOf(car, OrNull(car["year_start"]), OrNull(car["year_end"]))["year_range"].s,
                  NumToStr(matchYearRange(content["year_range"].s).ys.n),
                  NumToStr(matchYearRange(content["year_range"].s).ye.n))

\* no rule of the list has a key the text includes
MatchesNoRule(s, rules) == \A i \in 1..Len(rules) : ~RuleMatches(s, rules[i])

\* the raw value is absent, or it includes no key of the rules once put in
\* upper case (drivetrain) or lower case (vehicle_category)
UnmatchedDrivetrain(v) ==
    Absent(v) \/ v.t # "string" \/ MatchesNoRule(toUpperCase(v.s), DrivetrainRules)

UnmatchedCategory(v) ==
    Absent(v) \/ v.t # "string" \/ MatchesNoRule(toLowerCase(v.s), CategoryRules)

\* C12: a raw drivetrain or vehicle_category that is absent or that matches
\* none of the keyword rules normalises to absent: no default category is
\* put in the place of unmatched text.
C12_UnmatchedIsAbsent ==
    NormalizedRecord
        => /\ UnmatchedDrivetrain(content["drivetrain"]) => Absent(car["drivetrain"])
           /\ UnmatchedCategory(content["vehicle_category"]) => Absent(car["vehicle_category"])

\* the rarity score of the record that agrees with c on every field except
\* production_numbers, which is pn
ScoreAt(c, pn) == computeRarityScore([c EXCEPT !["production_numbers"] = pn])

\* the bounds of the production buckets with the contribution below each
\* bound and the contribution from it on
ProductionSteps ==
    <<[bound |-> 10, below |-> 10, from |-> 8],
      [bound |-> 30, below |-> 8, from |-> 6],
      [bound |-> 100, below |-> 6, from |-> 4],
      [bound |-> 1000, below |-> 4, from |-> 3],
      [bound |-> 5000, below |-> 3, from |-> 2],
      [bound |-> 20000, below |-> 2, from |-> 1],
      [bound |-> 100000, below |-> 1, from |-> 0]>>

\* production numbers in rising order, on both sides of every bound
ProductionProbes ==
    <<0 - 3, 0, 9, 10, 11, 29, 30, 99, 100, 999, 1000, 4999, 5000, 19999, 20000,
      99999, 100000, 200000>>

\* C13: of two records that agree on every field except production_numbers
\* the one with the smaller production_numbers has a rarity score greater
\* than or equal to the other's: the production contribution (the score with
\* the number less the score without one) is 10, 8, 6, 4, 3, 2, 1, 0 with the
\* steps at 10, 30, 100, 1000, 5000, 20000, 100000, each bound belonging to
\* the bucket above it, and it never rises as production_numbers rises.
C13_ScoreFallsWithProduction ==
    NormalizedRecord
        => /\ car["rarity_score"] = ScoreAt(car, car["production_numbers"])
           /\ \A i \in 1..Len(ProductionSteps) :
                  /\ ScoreAt(car, Units(ProductionSteps[i].bound - 1)).n - ScoreAt(car, Null).n
                         = ProductionSteps[i].below * 1000
                  /\ ScoreAt(car, Units(ProductionSteps[i].bound)).n - ScoreAt(car, Null).n
                         = ProductionSteps[i].from * 1000
           /\ \A i \in 1..(Len(ProductionProbes) - 1) :
                  ScoreAt(car, Units(ProductionProbes[i])).n
                      >= ScoreAt(car, Units(ProductionProbes[i + 1])).n
           /\ \A i \in 1..Len(ProductionProbes) :
                  (car["production_numbers"].t = "number"
                   /\ car["production_numbers"].n <= ProductionProbes[i] * 1000)
                      => car["rarity_score"].n >= ScoreAt(car, Units(ProductionProbes[i])).n

\* a record of nine units, normalised, that outscores the same record at
\* eleven units by the two points between the first two buckets
C13_Witness ==
    /\ NormalizedRecord
    /\ car["production_numbers"] = Units(9)
    /\ car["rarity_score"].n = ScoreAt(car, Units(11)).n + 2000

\* C14: every response the handler sends, on every path (non-POST rejection,
\* missing API key, ping, missing image, upstream oracle error, unparsable
\* payload, success, handler crash), carries a boolean success field, and
\* success is true only on the success path (status 200 with the record) and
\* the ping path (status 200 without one).
C14_EnvelopeHasSuccess ==
    (pc = "done")
        => /\ res.success \in {"true", "false"}
           /\ (res.success = "true")
                  => /\ res.status = 200
                     /\ res.error = "none"
                     /\ (res.hasCar \/ oracleCalls = 0)
           /\ (res.status # 200) => res.success = "false"

\* the handler's own test of a ping: ping === true, and in the earlier
\* revision a truthy ping
IsPing == IF version = "part_001" THEN ping = Bool(TRUE) ELSE Truthy(ping)

\* nothing was asked of the oracle and nothing was parsed or normalised
NothingDone ==
    oracleCalls = 0 /\ ~oracleOk /\ raw = <<>> /\ rawCar = Undefined /\ car = EmptyFields

\* C15: in every run of the handler the oracle is called at most once, and
\* only after these held in this order: the method is POST, the API key is
\* configured, the request is not a ping, imageBase64 is present.  Each check
\* is reached only when the ones before it passed, and a failed check ends
\* the request with its response (405, 500 for the missing key, 200 for the
\* ping, 400) without a call to the oracle and without normalising anything.
C15_OracleOnlyAfterChecks ==
    /\ oracleCalls <= 1
    /\ (pc \in {"start", "checkKey", "checkPing", "checkImage", "fetch"}) => NothingDone
    /\ (pc \in {"checkKey", "checkPing", "checkImage", "fetch"}) => method = "POST"
    /\ (pc \in {"checkPing", "checkImage", "fetch"}) => apiKey
    /\ (pc \in {"checkImage", "fetch"}) => ~IsPing
    /\ (pc = "fetch") => Truthy(imageBase64)
    /\ (pc \in {"await", "parse", "normalize"})
           => oracleCalls = 1 /\ res = NoResponse
    /\ (oracleCalls = 1)
           => method = "POST" /\ apiKey /\ ~IsPing /\ Truthy(imageBase64)
    /\ (pc = "done")
           => /\ (method # "POST")
                     => res.status = 405 /\ NothingDone
              /\ (method = "POST" /\ ~apiKey)
                     => /\ res.status = 500
                        /\ res.error = "Missing OPENAI_API_KEY environment variable"
                        /\ NothingDone
              /\ (method = "POST" /\ apiKey /\ IsPing)
                     => res.status = 200 /\ ~res.hasCar /\ NothingDone
              /\ (method = "POST" /\ apiKey /\ ~IsPing /\ ~Truthy(imageBase64))
                     => res.status = 400 /\ NothingDone
              /\ (method = "POST" /\ apiKey /\ ~IsPing /\ Truthy(imageBase64))
                     => oracleCalls = 1

\* a request that passed the four checks, called the oracle once and ended
\* with a record
C15_Witness == pc = "done" /\ oracleCalls = 1 /\ res.hasCar /\ res.status = 200

====
